---- MODULE Spec2Model ----
(***************************************************************************)
(* A model of flybys/render.py: the shape-model loader (load_shape_model), *)
(* the interactive preview (visualize_shape_model), the azimuth sweep      *)
(* (create_animation) and the top-level pipeline (render_meteorite_model). *)
(*                                                                         *)
(* Floating-point values are modelled as exact rationals [num, den].       *)
(* A file is a sequence of records, a record a sequence of 1..4 tokens     *)
(* (the tag and up to three fields), a token a string.                     *)
(***************************************************************************)
EXTENDS Integers, Sequences, FiniteSets, TLC

----------------------------------------------------------------------------
(* Bounds of the model *)

\* longest file (in records) handed to load_shape_model called directly
MaxRecords == 2

\* largest value of the steps parameter
MaxSteps == 3

\* renderer samples lie on the grid 0/Den, 1/Den, ..., Den/Den of [0, 1]
Den == 4

----------------------------------------------------------------------------
(* Values *)

\* a floating-point value, as an exact rational
Rat(n, d) == [num |-> n, den |-> d]

\* float(i) of a Python int (line 178): the same value, as a float
ToFloat(i) == Rat(i, 1)

\* decimal text of the integers 0, 1, 2, ...: Numerals[n + 1] is the text of n
Numerals == <<"0", "1", "2", "3", "4", "5", "6", "7", "8", "9">>

\* a field a record does not have (read_csv pads short rows)
Missing == ""

\* whether read_csv can convert the token to a number
IsNumeric(tok) == \E n \in 1..Len(Numerals) : Numerals[n] = tok

\* the number a numeric token denotes
Value(tok) == (CHOOSE n \in 1..Len(Numerals) : Numerals[n] = tok) - 1

\* the cells of a DataFrame: a number, a string (object column) or NaN
Num(n) == [t |-> "num", n |-> n, s |-> ""]
Str(s) == [t |-> "str", n |-> 0, s |-> s]
NaN == [t |-> "nan", n |-> 0, s |-> ""]

----------------------------------------------------------------------------
(* load_shape_model *)

\* field j (1..3) of a record, Missing when the record is too short
Field(rec, j) == IF j + 1 <= Len(rec) THEN rec[j + 1] ELSE Missing

\* read_csv infers one dtype per column: numeric when every field present in
\* the column converts, object (every value kept as its text) otherwise
ColumnNumeric(f, j) ==
    \A r \in 1..Len(f) : Field(f[r], j) = Missing \/ IsNumeric(Field(f[r], j))

\* the cell read_csv stores for field j of row r
CellOf(f, r, j) ==
    IF Field(f[r], j) = Missing THEN NaN
    ELSE IF ColumnNumeric(f, j) THEN Num(Value(Field(f[r], j)))
    ELSE Str(Field(f[r], j))

\* pd.read_csv(filepath, delim_whitespace=True, names=[TYPE, X1, X2, X3])
ReadCsv(f) ==
    [r \in 1..Len(f) |->
        [TYPE |-> f[r][1], X |-> [j \in 1..3 |-> CellOf(f, r, j)]]]

\* shape_model.loc[shape_model["TYPE"] == tag][["X1", "X2", "X3"]].values:
\* the rows of one tag, in file order
RowsOf(table, tag) ==
    LET sel == SelectSeq(table, LAMBDA row : row.TYPE = tag)
    IN  [i \in 1..Len(sel) |-> sel[i].X]

\* forgets the decrement
Minus1Forgotten(cell) == cell

\* one element of `values - 1`; a string element raises TypeError instead
Minus1(cell) == IF cell.t = "num" THEN Num(cell.n - 1) ELSE cell

\* whether `values - 1` raises: some selected element is a string
SubtractRaises(rows) ==
    \E i \in 1..Len(rows) : \E j \in 1..3 : rows[i][j].t = "str"

\* faces.astype(int).tolist(); the integers here are exact, and every face
\* row of the modelled inputs has its three fields, so no NaN is cast
AsInt(rows) == [i \in 1..Len(rows) |-> [j \in 1..3 |-> rows[i][j].n]]

\* the rows of `values - 1`
Decremented(rows) ==
    [i \in 1..Len(rows) |-> [j \in 1..3 |-> Minus1(rows[i][j])]]

\* load_shape_model(filepath) on a file that exists: what it returns, or the
\* exception it raises (err)
load_shape_model(f) ==
    LET shape_model == ReadCsv(f)
        vs == RowsOf(shape_model, "v")
        fs == RowsOf(shape_model, "f")
    IN  IF SubtractRaises(fs)
        THEN [err |-> "TypeError", vertices |-> <<>>, faces |-> <<>>]
        ELSE [err |-> "none", vertices |-> vs, faces |-> AsInt(Decremented(fs))]

----------------------------------------------------------------------------
(* Inputs *)

CoordTokens == {"0", "1"}
IndexTokens == {"0", "1", "2", "3"}

VertexRecords == {<<"v", a, b, c>> : a \in CoordTokens, b \in {"0"}, c \in CoordTokens}
FaceRecords ==
    {<<"f", a, b, c>> : a \in IndexTokens, b \in {"1", "2"}, c \in {"1", "3"}}
\* records of other kinds: a group name, a vertex normal, a bare tag
OtherRecords == {<<"g", "x">>, <<"vn", "1", "0", "0">>, <<"o">>}
Records == VertexRecords \cup FaceRecords \cup OtherRecords

RECURSIVE FilesUpTo(_)
FilesUpTo(n) ==
    IF n = 0 THEN {<<>>}
    ELSE LET shorter == FilesUpTo(n - 1)
         IN  shorter \cup {Append(f, r) : f \in {g \in shorter : Len(g) = n - 1}, r \in Records}

LoaderFiles == FilesUpTo(MaxRecords)

\* the files the top-level pipeline is run on
V0 == <<"v", "0", "0", "0">>
V1 == <<"v", "1", "0", "0">>
F111 == <<"f", "1", "1", "1">>
F121 == <<"f", "1", "2", "1">>
PipelineFiles ==
    { <<>>, <<V0>>, <<F111>>, <<V0, F111>>, <<V0, V1, F121>>,
      <<V0, <<"g", "x">>, F111>> }

\* what the renderer may leave in the framebuffer: two samples of [0, 1]
RawImages == {<<Rat(a, Den), Rat(Den - a, Den)>> : a \in 0..Den}

----------------------------------------------------------------------------
(* State *)

VARIABLES
    pc,             \* the statement the program is about to execute
    file,           \* the records of the model file
    present,        \* whether the model file is already in dl_path
    vv_rejects,     \* whether the installed visvis refuses a malformed mesh
    steps,          \* the steps parameter
    vertices,       \* load_shape_model's first result
    faces,          \* load_shape_model's second result
    err,            \* the exception that ended the run, "none" if none
    created,        \* MainWindow objects constructed so far
    open,           \* the windows constructed and not torn down
    preview,        \* the camera of the preview's axes
    camera,         \* the camera of the animation's axes
    lights,         \* light0 and lights[1] of the animation's axes
    azm_angle,      \* the loop variable, -1 before the first iteration
    azimuths,       \* history: the azimuths assigned to the camera, in order
    fb,             \* what the last redraw left in the figure
    temp_image,     \* the frame vv.getframe returned
    comet_images,   \* the frames appended so far
    encoder_calls,  \* calls of imageio.mimsave
    gif             \* the frame sequence imageio.mimsave wrote

vars == <<pc, file, present, vv_rejects, steps, vertices, faces, err, created, open,
          preview, camera, lights, azm_angle, azimuths, fb, temp_image,
          comet_images, encoder_calls, gif>>

NoCamera == [azimuth |-> Rat(0, 1), elevation |-> Rat(0, 1),
             fov |-> Rat(0, 1), zoom |-> Rat(0, 1)]
NoImage == [az |-> Rat(0, 1), raw |-> <<>>]
\* a fresh axes: light0 (the default light) is on, lights[1] is off
DefaultLights == << [on |-> TRUE, position |-> <<0, 0, 1, 0>>],
                    [on |-> FALSE, position |-> <<0, 0, 1, 0>>] >>
\* the elevation a fresh "3d" camera may start with
DefaultElevations == {Rat(0, 1), Rat(30, 1)}

\* everything but the inputs, before the first statement
Fresh ==
    /\ vertices = <<>>
    /\ faces = <<>>
    /\ err = "none"
    /\ created = 0
    /\ open = {}
    /\ preview = NoCamera
    /\ camera = NoCamera
    /\ lights = DefaultLights
    /\ azm_angle = -1
    /\ azimuths = <<>>
    /\ fb = NoImage
    /\ temp_image = NoImage
    /\ comet_images = <<>>
    /\ encoder_calls = 0
    /\ gif = <<>>

\* render_meteorite_model(...) is called (lines 226-231, or by an importer)
Init ==
    /\ pc = "download"
    /\ file \in PipelineFiles
    /\ present \in BOOLEAN
    /\ vv_rejects \in BOOLEAN
    /\ steps \in 0..MaxSteps
    /\ Fresh

\* the exception propagates: nothing in the file catches anything
Raise(e) ==
    /\ pc' = "failed"
    /\ err' = e

----------------------------------------------------------------------------
(* render_meteorite_model and download_shape_model *)

\* line 217 and lines 40-41: an absent file reaches data_fetch.download_file,
\* and data_fetch is a name the module never binds
Download ==
    /\ pc = "download"
    /\ IF present
       THEN /\ pc' = "load"
            /\ err' = err
       ELSE Raise("NameError")
    /\ UNCHANGED <<file, present, vv_rejects, steps, vertices, faces, created, open,
                   preview, camera, lights, azm_angle, azimuths, fb,
                   temp_image, comet_images, encoder_calls, gif>>

\* line 220
Load ==
    /\ pc = "load"
    /\ LET r == load_shape_model(file)
       IN  IF r.err = "none"
           THEN /\ vertices' = r.vertices
                /\ faces' = r.faces
                /\ pc' = "vis_window"
                /\ err' = err
           ELSE /\ Raise(r.err)
                /\ UNCHANGED <<vertices, faces>>
    /\ UNCHANGED <<file, present, vv_rejects, steps, created, open, preview, camera,
                   lights, azm_angle, azimuths, fb, temp_image, comet_images,
                   encoder_calls, gif>>

----------------------------------------------------------------------------
(* vv.mesh *)

\* a mesh in the format the docstrings ask for: vertices and faces present,
\* coordinates numeric, every index naming a vertex
WellFormed(vs, fs) ==
    /\ Len(vs) > 0
    /\ Len(fs) > 0
    /\ \A i \in 1..Len(vs) : \A j \in 1..3 : vs[i][j].t = "num"
    /\ \A i \in 1..Len(fs) : \A j \in 1..3 : fs[i][j] \in 0..(Len(vs) - 1)

\* vv.mesh(vertices=..., faces=..., verticesPerFace=3): a well-formed mesh is
\* built. The source checks nothing itself: what happens to any other mesh
\* is the library's doing, which either raises ValueError (the docstrings'
\* "not in the correct format") or builds what it is given.
MeshOutcome(vs, fs) ==
    IF WellFormed(vs, fs) \/ ~vv_rejects THEN "built" ELSE "ValueError"

----------------------------------------------------------------------------
(* visualize_shape_model *)

\* lines 98-103
VisWindow ==
    /\ pc = "vis_window"
    /\ created' = created + 1
    /\ open' = open \cup {"preview"}
    /\ pc' = "vis_mesh"
    /\ UNCHANGED <<file, present, vv_rejects, steps, vertices, faces, err, preview,
                   camera, lights, azm_angle, azimuths, fb, temp_image,
                   comet_images, encoder_calls, gif>>

\* lines 106-116, azimuth=120 and elevation=25 being the defaults of line 77
VisMesh ==
    /\ pc = "vis_mesh"
    /\ LET o == MeshOutcome(vertices, faces) IN
        IF o = "built"
        THEN /\ preview' = [azimuth |-> Rat(120, 1), elevation |-> Rat(25, 1),
                            fov |-> Rat(60, 1), zoom |-> preview.zoom]
             /\ pc' = "vis_run"
             /\ err' = err
        ELSE /\ Raise(o)
             /\ preview' = preview
    /\ UNCHANGED <<file, present, vv_rejects, steps, vertices, faces, created, open,
                   camera, lights, azm_angle, azimuths, fb, temp_image,
                   comet_images, encoder_calls, gif>>

\* line 119: app.Run() returns once the user has closed the window; the
\* function then returns and line 222 is next
VisRun ==
    /\ pc = "vis_run"
    /\ pc' = "anim_window"
    /\ UNCHANGED <<file, present, vv_rejects, steps, vertices, faces, err, created, open,
                   preview, camera, lights, azm_angle, azimuths, fb,
                   temp_image, comet_images, encoder_calls, gif>>

----------------------------------------------------------------------------
(* create_animation *)

\* temp_image * 255, one sample
Times255(r) == Rat(r.num * 255, r.den)

\* rounds to the nearest integer instead of truncating
AsUint8Rounded(r) == ((2 * r.num + r.den) \div (2 * r.den)) % 256

\* .astype(np.uint8), one sample: the fraction is dropped (towards zero) and
\* the integer kept modulo 2^8
AsUint8(r) ==
    (IF r.num >= 0 THEN r.num \div r.den ELSE -((-r.num) \div r.den)) % 256

\* (temp_image * 255).astype(np.uint8), line 182
Scaled(raw) == [p \in 1..Len(raw) |-> AsUint8(Times255(raw[p]))]

\* lines 147-152
AnimWindow ==
    /\ pc = "anim_window"
    /\ created' = created + 1
    /\ open' = open \cup {"animation"}
    /\ pc' = "anim_mesh"
    /\ UNCHANGED <<file, present, vv_rejects, steps, vertices, faces, err, preview,
                   camera, lights, azm_angle, azimuths, fb, temp_image,
                   comet_images, encoder_calls, gif>>

\* lines 155-174: the mesh, the camera, the lights and the empty frame list
AnimMesh ==
    /\ pc = "anim_mesh"
    /\ LET o == MeshOutcome(vertices, faces) IN
        IF o = "built"
        THEN /\ \E e \in DefaultElevations :
                  camera' = [azimuth |-> camera.azimuth, elevation |-> e,
                             fov |-> Rat(60, 1), zoom |-> Rat(1, 10)]
             /\ lights' = << [on |-> FALSE, position |-> lights[1].position],
                             [on |-> TRUE, position |-> <<5, 5, 5, 0>>] >>
             /\ comet_images' = <<>>
             /\ pc' = "for"
             /\ err' = err
        ELSE /\ Raise(o)
             /\ UNCHANGED <<camera, lights, comet_images>>
    /\ UNCHANGED <<file, present, vv_rejects, steps, vertices, faces, created, open,
                   preview, azm_angle, azimuths, fb, temp_image,
                   encoder_calls, gif>>

\* the sweep stops one step early
ForNextShort ==
    /\ pc = "for"
    /\ IF azm_angle + 1 < steps - 1
       THEN /\ azm_angle' = azm_angle + 1
            /\ pc' = "azimuth"
       ELSE /\ azm_angle' = azm_angle
            /\ pc' = "encode"
    /\ UNCHANGED <<file, present, vv_rejects, steps, vertices, faces, err, created, open,
                   preview, camera, lights, azimuths, fb, temp_image,
                   comet_images, encoder_calls, gif>>

\* line 177: range(steps) hands out 0, 1, ..., steps - 1 and then ends the loop
ForNext ==
    /\ pc = "for"
    /\ IF azm_angle + 1 < steps
       THEN /\ azm_angle' = azm_angle + 1
            /\ pc' = "azimuth"
       ELSE /\ azm_angle' = azm_angle
            /\ pc' = "encode"
    /\ UNCHANGED <<file, present, vv_rejects, steps, vertices, faces, err, created, open,
                   preview, camera, lights, azimuths, fb, temp_image,
                   comet_images, encoder_calls, gif>>

\* the step also tilts the camera
SetAzimuthAndElevation ==
    /\ pc = "azimuth"
    /\ camera' = [camera EXCEPT !.azimuth = ToFloat(azm_angle),
                                !.elevation = ToFloat(azm_angle)]
    /\ azimuths' = Append(azimuths, ToFloat(azm_angle))
    /\ pc' = "draw"
    /\ UNCHANGED <<file, present, vv_rejects, steps, vertices, faces, err, created, open,
                   preview, lights, azm_angle, fb, temp_image, comet_images,
                   encoder_calls, gif>>

\* line 178
SetAzimuth ==
    /\ pc = "azimuth"
    /\ camera' = [camera EXCEPT !.azimuth = ToFloat(azm_angle)]
    /\ azimuths' = Append(azimuths, ToFloat(azm_angle))
    /\ pc' = "draw"
    /\ UNCHANGED <<file, present, vv_rejects, steps, vertices, faces, err, created, open,
                   preview, lights, azm_angle, fb, temp_image, comet_images,
                   encoder_calls, gif>>

\* a failed redraw is swallowed and the loop ends
DrawSwallows ==
    /\ pc = "draw"
    /\ \/ /\ \E img \in RawImages : fb' = [az |-> camera.azimuth, raw |-> img]
          /\ pc' = "getframe"
       \/ /\ pc' = "encode"
          /\ fb' = fb
    /\ UNCHANGED <<file, present, vv_rejects, steps, vertices, faces, err, created, open,
                   preview, camera, lights, azm_angle, azimuths, temp_image,
                   comet_images, encoder_calls, gif>>

\* the redraw is left out: the figure keeps what it showed
DrawNothing ==
    /\ pc = "draw"
    /\ \/ /\ fb' = fb
          /\ pc' = "getframe"
          /\ err' = err
       \/ /\ Raise("RenderError")
          /\ fb' = fb
    /\ UNCHANGED <<file, present, vv_rejects, steps, vertices, faces, created, open,
                   preview, camera, lights, azm_angle, azimuths, temp_image,
                   comet_images, encoder_calls, gif>>

\* lines 179-180: axes.Draw() and figure.DrawNow() redraw the scene as the
\* camera now stands, or raise
Draw ==
    /\ pc = "draw"
    /\ \/ /\ \E img \in RawImages : fb' = [az |-> camera.azimuth, raw |-> img]
          /\ pc' = "getframe"
          /\ err' = err
       \/ /\ Raise("RenderError")
          /\ fb' = fb
    /\ UNCHANGED <<file, present, vv_rejects, steps, vertices, faces, created, open,
                   preview, camera, lights, azm_angle, azimuths, temp_image,
                   comet_images, encoder_calls, gif>>

\* line 181: vv.getframe reads the figure back, or raises
GetFrame ==
    /\ pc = "getframe"
    /\ \/ /\ temp_image' = fb
          /\ pc' = "append"
          /\ err' = err
       \/ /\ Raise("RenderError")
          /\ temp_image' = temp_image
    /\ UNCHANGED <<file, present, vv_rejects, steps, vertices, faces, created, open,
                   preview, camera, lights, azm_angle, azimuths, fb,
                   comet_images, encoder_calls, gif>>

\* line 182; az and raw record what the stored bytes were made from
AppendFrame ==
    /\ pc = "append"
    /\ comet_images' = Append(comet_images,
                              [az |-> temp_image.az, raw |-> temp_image.raw,
                               data |-> Scaled(temp_image.raw)])
    /\ pc' = "for"
    /\ UNCHANGED <<file, present, vv_rejects, steps, vertices, faces, err, created, open,
                   preview, camera, lights, azm_angle, azimuths, fb,
                   temp_image, encoder_calls, gif>>

\* line 185: imageio.mimsave writes the file, or raises IOError
Encode ==
    /\ pc = "encode"
    /\ encoder_calls' = encoder_calls + 1
    /\ \/ /\ gif' = comet_images
          /\ pc' = "done"
          /\ err' = err
       \/ /\ Raise("IOError")
          /\ gif' = gif
    /\ UNCHANGED <<file, present, vv_rejects, steps, vertices, faces, created, open,
                   preview, camera, lights, azm_angle, azimuths, fb,
                   temp_image, comet_images>>

----------------------------------------------------------------------------
(* Specifications *)

\* the statements of create_animation
Driver ==
    \/ AnimWindow
    \/ AnimMesh
    \/ ForNext
    \/ SetAzimuth
    \/ Draw
    \/ GetFrame
    \/ AppendFrame
    \/ Encode

Next ==
    \/ Download
    \/ Load
    \/ VisWindow
    \/ VisMesh
    \/ VisRun
    \/ Driver

\* the top-level pipeline
Spec == Init /\ [][Next]_vars

\* the interpreter keeps executing create_animation's statements once it is
\* entered; when the user closes the preview window is left open
FairSpec == Init /\ [][Next]_vars /\ WF_vars(Driver)

\* load_shape_model(filepath) is called on its own
InitLoader ==
    /\ pc = "call_load"
    /\ file \in LoaderFiles
    /\ present = TRUE
    /\ vv_rejects = TRUE
    /\ steps = 0
    /\ Fresh

\* lines 67-74, the whole function
CallLoad ==
    /\ pc = "call_load"
    /\ LET r == load_shape_model(file)
       IN  /\ vertices' = r.vertices
           /\ faces' = r.faces
           /\ err' = r.err
           /\ pc' = IF r.err = "none" THEN "returned" ELSE "failed"
    /\ UNCHANGED <<file, present, vv_rejects, steps, created, open, preview, camera,
                   lights, azm_angle, azimuths, fb, temp_image, comet_images,
                   encoder_calls, gif>>

SpecLoader == InitLoader /\ [][CallLoad]_vars

----------------------------------------------------------------------------
(* Claims about create_animation and the pipeline *)

\* the run completed: imageio.mimsave returned
Completed == pc = "done"

\* the run ended
Ended == pc \in {"done", "failed"}

\* the statements of the for loop
InSweep == pc \in {"for", "azimuth", "draw", "getframe", "append"}

\* C1: a run with steps = N >= 1 that completes without error has assigned
\* the azimuths 0.0, 1.0, ..., N-1.0 in that order, has appended exactly N
\* frames, frame i showing the scene at azimuth float(i), and has handed
\* exactly that sequence of N frames to the encoder.
C1_FramesInStepOrder ==
    (Completed /\ steps >= 1) =>
        /\ Len(azimuths) = steps
        /\ Len(comet_images) = steps
        /\ Len(gif) = steps
        /\ gif = comet_images
        /\ \A i \in 0..(steps - 1) :
            /\ azimuths[i + 1] = [num |-> i, den |-> 1]
            /\ comet_images[i + 1].az = [num |-> i, den |-> 1]

\* a completed run of three steps
C1_Witness ==
    /\ Completed
    /\ steps = 3
    /\ Len(gif) = 3
    /\ gif[3].az = [num |-> 2, den |-> 1]

C2_Inv ==
    /\ encoder_calls <= 1
    /\ encoder_calls = 1 =>
        /\ present
        /\ load_shape_model(file).err = "none"
        /\ Len(comet_images) = steps
        /\ Len(azimuths) = steps
        /\ Ended
    /\ (err # "none") <=> (pc = "failed")
    /\ (pc = "failed" /\ err # "IOError") => encoder_calls = 0
    /\ ~Completed => gif = <<>>
    /\ Completed => gif = comet_images /\ Len(gif) = steps
    /\ Len(azimuths) <= azm_angle + 1

\* C2: the encoder is called at most once, and only after the fetch, the
\* parse and all `steps` render steps succeeded; a failing step ends the run
\* with the error set, nothing runs after it (no retry, no step is repeated),
\* and a partial frame sequence never reaches the encoder: only a completed
\* run has written frames, and then all of them.
C2_AllOrNothing ==
    /\ []C2_Inv
    /\ [][pc # "failed" /\ azm_angle' >= azm_angle]_vars

\* a render step failed after a frame had been appended
C2_Witness ==
    /\ pc = "failed"
    /\ err = "RenderError"
    /\ Len(comet_images) >= 1
    /\ encoder_calls = 0
    /\ gif = <<>>

\* C5: a mesh with an empty vertex list or an empty face list, once handed
\* to the renderer, ends the run with InvalidMeshError: no frame, no
\* animation step, no call of the encoder.
C5_EmptyMeshRejected ==
    (/\ created >= 1
     /\ pc # "vis_mesh"
     /\ (Len(vertices) = 0 \/ Len(faces) = 0)) =>
        /\ pc = "failed"
        /\ err = "InvalidMeshError"
        /\ comet_images = <<>>
        /\ azimuths = <<>>
        /\ encoder_calls = 0

\* C6: one run of the pipeline creates the rendering surface once, and no
\* surface is left unreleased when the run has ended, however it ended.
C6_ContextOnceAndReleased ==
    /\ created <= 1
    /\ Ended => open = {}

\* C8: every stored sample d of every frame is the integer in 0..255 with
\* d <= s * 255 < d + 1 for its renderer sample s (truncation, not rounding),
\* and equal renderer output gives equal stored samples.
C8_SamplesTruncated ==
    /\ \A k \in 1..Len(comet_images) :
        /\ Len(comet_images[k].data) = Len(comet_images[k].raw)
        /\ \A p \in 1..Len(comet_images[k].raw) :
            LET s == comet_images[k].raw[p]
                d == comet_images[k].data[p]
            IN  /\ d \in 0..255
                /\ d * s.den <= s.num * 255
                /\ s.num * 255 < (d + 1) * s.den
    /\ \A k \in 1..Len(comet_images) : \A l \in 1..Len(comet_images) :
        comet_images[k].raw = comet_images[l].raw =>
            comet_images[k].data = comet_images[l].data

\* a stored frame whose samples 1/4 and 3/4 lie strictly between two integers
\* after scaling: 63.75 is stored as 63, 191.25 as 191
C8_Witness ==
    \E k \in 1..Len(comet_images) :
        /\ comet_images[k].raw = <<[num |-> 1, den |-> 4], [num |-> 3, den |-> 4]>>
        /\ comet_images[k].data = <<63, 191>>

C9_Inv ==
    /\ pc = "getframe" => fb.az = [num |-> azm_angle, den |-> 1]
    /\ pc = "append" => temp_image.az = [num |-> azm_angle, den |-> 1]
    /\ \A k \in 1..Len(comet_images) :
        comet_images[k].az = [num |-> k - 1, den |-> 1]
    /\ InSweep => azm_angle \in -1..(steps - 1)
    /\ pc = "encode" => encoder_calls = 0 /\ Len(comet_images) = steps
    /\ Completed => encoder_calls = 1
    /\ encoder_calls <= 1

C9_Order ==
    /\ azm_angle' # azm_angle =>
        /\ pc = "for"
        /\ pc' = "azimuth"
        /\ azm_angle' = azm_angle + 1
        /\ azm_angle' < steps
    /\ (pc = "for" /\ pc' # "azimuth") =>
        /\ pc' = "encode"
        /\ azm_angle = steps - 1
    /\ pc = "azimuth" =>
        /\ pc' = "draw"
        /\ camera'.azimuth = [num |-> azm_angle, den |-> 1]
    /\ pc = "draw" =>
        /\ pc' \in {"getframe", "failed"}
        /\ pc' = "getframe" => fb'.az = camera.azimuth
    /\ pc = "getframe" =>
        /\ pc' \in {"append", "failed"}
        /\ pc' = "append" => temp_image' = fb
    /\ pc = "append" =>
        /\ pc' = "for"
        /\ Len(comet_images') = Len(comet_images) + 1
        /\ comet_images'[Len(comet_images')].az = temp_image.az
    /\ pc = "encode" => encoder_calls' = 1

\* C9, as amended: the driver goes Idle -> Rendering(0) -> ... ->
\* Rendering(steps-1) -> Done, no step skipped, repeated or reordered; each
\* step sets the azimuth, redraws, captures and appends, in that order, and
\* the capture of step i shows the azimuth of step i; once entered, the
\* driver eventually either reaches Done, where the encoder is called exactly
\* once, or is ended by an exception of the mesh construction, of a redraw or
\* of a capture, and then the encoder is not called.
C9_DriverStateMachine ==
    /\ []C9_Inv
    /\ [][C9_Order]_vars
    /\ (pc = "anim_window") ~> (encoder_calls = 1 \/ (pc = "failed" /\ encoder_calls = 0))

\* C9, as stated: once entered, the driver eventually reaches Done, where
\* the encoder is called
C9_AlwaysReachesDone == (pc = "anim_window") ~> (encoder_calls = 1)

\* the driver has gone through all three steps and the encoder has returned
C9_Witness ==
    /\ Completed
    /\ Len(azimuths) = 3
    /\ azm_angle = 2
    /\ encoder_calls = 1

C10_Inv ==
    InSweep =>
        /\ camera.fov = [num |-> 60, den |-> 1]
        /\ camera.zoom = [num |-> 1, den |-> 10]
        /\ ~lights[1].on
        /\ lights[2].on
        /\ lights[2].position = <<5, 5, 5, 0>>
        /\ Cardinality({i \in 1..Len(lights) : lights[i].on}) = 1

C10_Step ==
    InSweep =>
        /\ camera'.elevation = camera.elevation
        /\ camera'.fov = camera.fov
        /\ camera'.zoom = camera.zoom
        /\ lights' = lights
        /\ vertices' = vertices
        /\ faces' = faces
        /\ Len(comet_images') >= Len(comet_images)
        /\ SubSeq(comet_images', 1, Len(comet_images)) = comet_images

\* C10: throughout the sweep the field of view is 60, the zoom 0.1, the
\* default light off and exactly one light on, at (5, 5, 5, 0); and no step
\* of the sweep changes the elevation, the field of view, the zoom, the
\* lights, the vertices, the faces or a frame already appended.
C10_OnlyAzimuthAndFramesChange ==
    /\ []C10_Inv
    /\ [][C10_Step]_vars

\* two steps of the sweep are over: the azimuth has moved, two frames are kept
C10_Witness ==
    /\ pc = "for"
    /\ Len(comet_images) = 2
    /\ camera.azimuth = [num |-> 1, den |-> 1]

----------------------------------------------------------------------------
(* Claims about load_shape_model *)

\* load_shape_model returned
Returned == pc = "returned"

\* C3: every face index of a mesh the loader returns names a vertex: it lies
\* in 0..Len(vertices)-1 (so a record with index 0 or with an index above
\* the number of vertex records is not returned).
C3_FaceIndicesInRange ==
    Returned =>
        \A i \in 1..Len(faces) : \A j \in 1..3 :
            faces[i][j] \in 0..(Len(vertices) - 1)

C7_OtherRecordsIgnored ==
    pc \in {"returned", "failed"} =>
        LET r == load_shape_model(SelectSeq(file, LAMBDA rec : rec[1] \in {"v", "f"}))
        IN  /\ err = r.err
            /\ faces = r.faces
            /\ vertices = r.vertices

====
